---- MODULE Spec2Model ----
(***************************************************************************)
(* Model of oxford_checker_web.py: the ligature normaliser, the suffix     *)
(* normaliser, the ignorability filter and the classification loop of      *)
(* check_pdf.                                                              *)
(*                                                                         *)
(* A Python str is the sequence of its code points, each an integer (the   *)
(* value of ord): "use" is <<117, 115, 101>>, written S(<<"u","s","e">>).  *)
(* The loop of check_pdf consumes the token list `words` one token per     *)
(* step; `words` holds the tokens consumed so far (the document prefix).   *)
(***************************************************************************)
EXTENDS Integers, Sequences, FiniteSets, TLC

VARIABLES
    oxford_ize_words,     \* OxfordBaseSet (load_oxford_ize_list)
    medical_corrections,  \* MedicalCorrectionMap (load_medical_corrections)
    abbreviations,        \* AbbreviationSet (load_abbreviations)
    base_lexicon,         \* SpellChecker("en") dictionary + words_en_gb.txt
    words,                \* tokens of the document consumed by the loop so far
    oxford_ize_issues,    \* list of (wrong, correct)
    medical_issues,       \* list of (american, british)
    typo_issues,          \* list of reported strings
    seen_typo_words,      \* set of reported strings
    branch,               \* which branch of the loop body handled the last token
    nw_word, nw_set, nw_result, nw_done,        \* normalize_word harness
    lig_text, lig_once, lig_twice, lig_stage    \* normalize_ligatures harness

cfgvars  == <<oxford_ize_words, medical_corrections, abbreviations, base_lexicon>>
loopvars == <<words, oxford_ize_issues, medical_issues, typo_issues, seen_typo_words, branch>>
nwvars   == <<nw_word, nw_set, nw_result, nw_done>>
ligvars  == <<lig_text, lig_once, lig_twice, lig_stage>>
vars     == <<cfgvars, loopvars, nwvars, ligvars>>

----------------------------------------------------------------------------
(* Bounds *)

MaxWords == 3

MaxLen == 2

----------------------------------------------------------------------------
(* String helpers *)

Range(f) == { f[x] : x \in DOMAIN f }

EndsWith(word, suffix) ==
    /\ Len(word) >= Len(suffix)
    /\ SubSeq(word, Len(word) - Len(suffix) + 1, Len(word)) = suffix

DropSuffix(word, n) == SubSeq(word, 1, Len(word) - n)

\* ord() of the ASCII characters the model writes as text
ord ==
    ("a" :> 97) @@ ("b" :> 98) @@ ("c" :> 99) @@ ("d" :> 100) @@ ("e" :> 101) @@ ("f" :> 102) @@
    ("g" :> 103) @@ ("h" :> 104) @@ ("i" :> 105) @@ ("j" :> 106) @@ ("k" :> 107) @@ ("l" :> 108) @@
    ("m" :> 109) @@ ("n" :> 110) @@ ("o" :> 111) @@ ("p" :> 112) @@ ("q" :> 113) @@ ("r" :> 114) @@
    ("s" :> 115) @@ ("t" :> 116) @@ ("u" :> 117) @@ ("v" :> 118) @@ ("w" :> 119) @@ ("x" :> 120) @@
    ("y" :> 121) @@ ("z" :> 122) @@ ("A" :> 65) @@ ("B" :> 66) @@ ("C" :> 67) @@ ("D" :> 68) @@
    ("E" :> 69) @@ ("F" :> 70) @@ ("G" :> 71) @@ ("H" :> 72) @@ ("I" :> 73) @@ ("J" :> 74) @@
    ("K" :> 75) @@ ("L" :> 76) @@ ("M" :> 77) @@ ("N" :> 78) @@ ("O" :> 79) @@ ("P" :> 80) @@
    ("Q" :> 81) @@ ("R" :> 82) @@ ("S" :> 83) @@ ("T" :> 84) @@ ("U" :> 85) @@ ("V" :> 86) @@
    ("W" :> 87) @@ ("X" :> 88) @@ ("Y" :> 89) @@ ("Z" :> 90) @@ ("0" :> 48) @@ ("1" :> 49) @@
    ("2" :> 50) @@ ("3" :> 51) @@ ("4" :> 52) @@ ("5" :> 53) @@ ("6" :> 54) @@ ("7" :> 55) @@
    ("8" :> 56) @@ ("9" :> 57) @@ ("_" :> 95) @@ (" " :> 32)

\* The str a tuple of ASCII characters spells
S(chars) == [i \in 1..Len(chars) |-> ord[chars[i]]]

\* [a-z] of double_l_pattern: ord("a")..ord("z")
Letters == 97..122

\* [aeiou] of double_l_pattern
Vowels == { 97, 101, 105, 111, 117 }

\* The code points c with chr(c).isalpha() are the letters of Unicode 14.0.0
\* (categories Lu, Ll, Lt, Lm, Lo), 131756 code points: in ASCII, A-Z
\* (65..90) and a-z (97..122); above ASCII, the sorted inclusive ranges
\* <<first, last>> of alpha_ranges.
alpha_ranges ==
    <<
       <<170,170>>, <<181,181>>, <<186,186>>, <<192,214>>,
       <<216,246>>, <<248,705>>, <<710,721>>, <<736,740>>, <<748,748>>, <<750,750>>,
       <<880,884>>, <<886,887>>, <<890,893>>, <<895,895>>, <<902,902>>, <<904,906>>,
       <<908,908>>, <<910,929>>, <<931,1013>>, <<1015,1153>>, <<1162,1327>>, <<1329,1366>>,
       <<1369,1369>>, <<1376,1416>>, <<1488,1514>>, <<1519,1522>>, <<1568,1610>>, <<1646,1647>>,
       <<1649,1747>>, <<1749,1749>>, <<1765,1766>>, <<1774,1775>>, <<1786,1788>>, <<1791,1791>>,
       <<1808,1808>>, <<1810,1839>>, <<1869,1957>>, <<1969,1969>>, <<1994,2026>>, <<2036,2037>>,
       <<2042,2042>>, <<2048,2069>>, <<2074,2074>>, <<2084,2084>>, <<2088,2088>>, <<2112,2136>>,
       <<2144,2154>>, <<2160,2183>>, <<2185,2190>>, <<2208,2249>>, <<2308,2361>>, <<2365,2365>>,
       <<2384,2384>>, <<2392,2401>>, <<2417,2432>>, <<2437,2444>>, <<2447,2448>>, <<2451,2472>>,
       <<2474,2480>>, <<2482,2482>>, <<2486,2489>>, <<2493,2493>>, <<2510,2510>>, <<2524,2525>>,
       <<2527,2529>>, <<2544,2545>>, <<2556,2556>>, <<2565,2570>>, <<2575,2576>>, <<2579,2600>>,
       <<2602,2608>>, <<2610,2611>>, <<2613,2614>>, <<2616,2617>>, <<2649,2652>>, <<2654,2654>>,
       <<2674,2676>>, <<2693,2701>>, <<2703,2705>>, <<2707,2728>>, <<2730,2736>>, <<2738,2739>>,
       <<2741,2745>>, <<2749,2749>>, <<2768,2768>>, <<2784,2785>>, <<2809,2809>>, <<2821,2828>>,
       <<2831,2832>>, <<2835,2856>>, <<2858,2864>>, <<2866,2867>>, <<2869,2873>>, <<2877,2877>>,
       <<2908,2909>>, <<2911,2913>>, <<2929,2929>>, <<2947,2947>>, <<2949,2954>>, <<2958,2960>>,
       <<2962,2965>>, <<2969,2970>>, <<2972,2972>>, <<2974,2975>>, <<2979,2980>>, <<2984,2986>>,
       <<2990,3001>>, <<3024,3024>>, <<3077,3084>>, <<3086,3088>>, <<3090,3112>>, <<3114,3129>>,
       <<3133,3133>>, <<3160,3162>>, <<3165,3165>>, <<3168,3169>>, <<3200,3200>>, <<3205,3212>>,
       <<3214,3216>>, <<3218,3240>>, <<3242,3251>>, <<3253,3257>>, <<3261,3261>>, <<3293,3294>>,
       <<3296,3297>>, <<3313,3314>>, <<3332,3340>>, <<3342,3344>>, <<3346,3386>>, <<3389,3389>>,
       <<3406,3406>>, <<3412,3414>>, <<3423,3425>>, <<3450,3455>>, <<3461,3478>>, <<3482,3505>>,
       <<3507,3515>>, <<3517,3517>>, <<3520,3526>>, <<3585,3632>>, <<3634,3635>>, <<3648,3654>>,
       <<3713,3714>>, <<3716,3716>>, <<3718,3722>>, <<3724,3747>>, <<3749,3749>>, <<3751,3760>>,
       <<3762,3763>>, <<3773,3773>>, <<3776,3780>>, <<3782,3782>>, <<3804,3807>>, <<3840,3840>>,
       <<3904,3911>>, <<3913,3948>>, <<3976,3980>>, <<4096,4138>>, <<4159,4159>>, <<4176,4181>>,
       <<4186,4189>>, <<4193,4193>>, <<4197,4198>>, <<4206,4208>>, <<4213,4225>>, <<4238,4238>>,
       <<4256,4293>>, <<4295,4295>>, <<4301,4301>>, <<4304,4346>>, <<4348,4680>>, <<4682,4685>>,
       <<4688,4694>>, <<4696,4696>>, <<4698,4701>>, <<4704,4744>>, <<4746,4749>>, <<4752,4784>>,
       <<4786,4789>>, <<4792,4798>>, <<4800,4800>>, <<4802,4805>>, <<4808,4822>>, <<4824,4880>>,
       <<4882,4885>>, <<4888,4954>>, <<4992,5007>>, <<5024,5109>>, <<5112,5117>>, <<5121,5740>>,
       <<5743,5759>>, <<5761,5786>>, <<5792,5866>>, <<5873,5880>>, <<5888,5905>>, <<5919,5937>>,
       <<5952,5969>>, <<5984,5996>>, <<5998,6000>>, <<6016,6067>>, <<6103,6103>>, <<6108,6108>>,
       <<6176,6264>>, <<6272,6276>>, <<6279,6312>>, <<6314,6314>>, <<6320,6389>>, <<6400,6430>>,
       <<6480,6509>>, <<6512,6516>>, <<6528,6571>>, <<6576,6601>>, <<6656,6678>>, <<6688,6740>>,
       <<6823,6823>>, <<6917,6963>>, <<6981,6988>>, <<7043,7072>>, <<7086,7087>>, <<7098,7141>>,
       <<7168,7203>>, <<7245,7247>>, <<7258,7293>>, <<7296,7304>>, <<7312,7354>>, <<7357,7359>>,
       <<7401,7404>>, <<7406,7411>>, <<7413,7414>>, <<7418,7418>>, <<7424,7615>>, <<7680,7957>>,
       <<7960,7965>>, <<7968,8005>>, <<8008,8013>>, <<8016,8023>>, <<8025,8025>>, <<8027,8027>>,
       <<8029,8029>>, <<8031,8061>>, <<8064,8116>>, <<8118,8124>>, <<8126,8126>>, <<8130,8132>>,
       <<8134,8140>>, <<8144,8147>>, <<8150,8155>>, <<8160,8172>>, <<8178,8180>>, <<8182,8188>>,
       <<8305,8305>>, <<8319,8319>>, <<8336,8348>>, <<8450,8450>>, <<8455,8455>>, <<8458,8467>>,
       <<8469,8469>>, <<8473,8477>>, <<8484,8484>>, <<8486,8486>>, <<8488,8488>>, <<8490,8493>>,
       <<8495,8505>>, <<8508,8511>>, <<8517,8521>>, <<8526,8526>>, <<8579,8580>>, <<11264,11492>>,
       <<11499,11502>>, <<11506,11507>>, <<11520,11557>>, <<11559,11559>>, <<11565,11565>>, <<11568,11623>>,
       <<11631,11631>>, <<11648,11670>>, <<11680,11686>>, <<11688,11694>>, <<11696,11702>>, <<11704,11710>>,
       <<11712,11718>>, <<11720,11726>>, <<11728,11734>>, <<11736,11742>>, <<11823,11823>>, <<12293,12294>>,
       <<12337,12341>>, <<12347,12348>>, <<12353,12438>>, <<12445,12447>>, <<12449,12538>>, <<12540,12543>>,
       <<12549,12591>>, <<12593,12686>>, <<12704,12735>>, <<12784,12799>>, <<13312,19903>>, <<19968,42124>>,
       <<42192,42237>>, <<42240,42508>>, <<42512,42527>>, <<42538,42539>>, <<42560,42606>>, <<42623,42653>>,
       <<42656,42725>>, <<42775,42783>>, <<42786,42888>>, <<42891,42954>>, <<42960,42961>>, <<42963,42963>>,
       <<42965,42969>>, <<42994,43009>>, <<43011,43013>>, <<43015,43018>>, <<43020,43042>>, <<43072,43123>>,
       <<43138,43187>>, <<43250,43255>>, <<43259,43259>>, <<43261,43262>>, <<43274,43301>>, <<43312,43334>>,
       <<43360,43388>>, <<43396,43442>>, <<43471,43471>>, <<43488,43492>>, <<43494,43503>>, <<43514,43518>>,
       <<43520,43560>>, <<43584,43586>>, <<43588,43595>>, <<43616,43638>>, <<43642,43642>>, <<43646,43695>>,
       <<43697,43697>>, <<43701,43702>>, <<43705,43709>>, <<43712,43712>>, <<43714,43714>>, <<43739,43741>>,
       <<43744,43754>>, <<43762,43764>>, <<43777,43782>>, <<43785,43790>>, <<43793,43798>>, <<43808,43814>>,
       <<43816,43822>>, <<43824,43866>>, <<43868,43881>>, <<43888,44002>>, <<44032,55203>>, <<55216,55238>>,
       <<55243,55291>>, <<63744,64109>>, <<64112,64217>>, <<64256,64262>>, <<64275,64279>>, <<64285,64285>>,
       <<64287,64296>>, <<64298,64310>>, <<64312,64316>>, <<64318,64318>>, <<64320,64321>>, <<64323,64324>>,
       <<64326,64433>>, <<64467,64829>>, <<64848,64911>>, <<64914,64967>>, <<65008,65019>>, <<65136,65140>>,
       <<65142,65276>>, <<65313,65338>>, <<65345,65370>>, <<65382,65470>>, <<65474,65479>>, <<65482,65487>>,
       <<65490,65495>>, <<65498,65500>>, <<65536,65547>>, <<65549,65574>>, <<65576,65594>>, <<65596,65597>>,
       <<65599,65613>>, <<65616,65629>>, <<65664,65786>>, <<66176,66204>>, <<66208,66256>>, <<66304,66335>>,
       <<66349,66368>>, <<66370,66377>>, <<66384,66421>>, <<66432,66461>>, <<66464,66499>>, <<66504,66511>>,
       <<66560,66717>>, <<66736,66771>>, <<66776,66811>>, <<66816,66855>>, <<66864,66915>>, <<66928,66938>>,
       <<66940,66954>>, <<66956,66962>>, <<66964,66965>>, <<66967,66977>>, <<66979,66993>>, <<66995,67001>>,
       <<67003,67004>>, <<67072,67382>>, <<67392,67413>>, <<67424,67431>>, <<67456,67461>>, <<67463,67504>>,
       <<67506,67514>>, <<67584,67589>>, <<67592,67592>>, <<67594,67637>>, <<67639,67640>>, <<67644,67644>>,
       <<67647,67669>>, <<67680,67702>>, <<67712,67742>>, <<67808,67826>>, <<67828,67829>>, <<67840,67861>>,
       <<67872,67897>>, <<67968,68023>>, <<68030,68031>>, <<68096,68096>>, <<68112,68115>>, <<68117,68119>>,
       <<68121,68149>>, <<68192,68220>>, <<68224,68252>>, <<68288,68295>>, <<68297,68324>>, <<68352,68405>>,
       <<68416,68437>>, <<68448,68466>>, <<68480,68497>>, <<68608,68680>>, <<68736,68786>>, <<68800,68850>>,
       <<68864,68899>>, <<69248,69289>>, <<69296,69297>>, <<69376,69404>>, <<69415,69415>>, <<69424,69445>>,
       <<69488,69505>>, <<69552,69572>>, <<69600,69622>>, <<69635,69687>>, <<69745,69746>>, <<69749,69749>>,
       <<69763,69807>>, <<69840,69864>>, <<69891,69926>>, <<69956,69956>>, <<69959,69959>>, <<69968,70002>>,
       <<70006,70006>>, <<70019,70066>>, <<70081,70084>>, <<70106,70106>>, <<70108,70108>>, <<70144,70161>>,
       <<70163,70187>>, <<70272,70278>>, <<70280,70280>>, <<70282,70285>>, <<70287,70301>>, <<70303,70312>>,
       <<70320,70366>>, <<70405,70412>>, <<70415,70416>>, <<70419,70440>>, <<70442,70448>>, <<70450,70451>>,
       <<70453,70457>>, <<70461,70461>>, <<70480,70480>>, <<70493,70497>>, <<70656,70708>>, <<70727,70730>>,
       <<70751,70753>>, <<70784,70831>>, <<70852,70853>>, <<70855,70855>>, <<71040,71086>>, <<71128,71131>>,
       <<71168,71215>>, <<71236,71236>>, <<71296,71338>>, <<71352,71352>>, <<71424,71450>>, <<71488,71494>>,
       <<71680,71723>>, <<71840,71903>>, <<71935,71942>>, <<71945,71945>>, <<71948,71955>>, <<71957,71958>>,
       <<71960,71983>>, <<71999,71999>>, <<72001,72001>>, <<72096,72103>>, <<72106,72144>>, <<72161,72161>>,
       <<72163,72163>>, <<72192,72192>>, <<72203,72242>>, <<72250,72250>>, <<72272,72272>>, <<72284,72329>>,
       <<72349,72349>>, <<72368,72440>>, <<72704,72712>>, <<72714,72750>>, <<72768,72768>>, <<72818,72847>>,
       <<72960,72966>>, <<72968,72969>>, <<72971,73008>>, <<73030,73030>>, <<73056,73061>>, <<73063,73064>>,
       <<73066,73097>>, <<73112,73112>>, <<73440,73458>>, <<73648,73648>>, <<73728,74649>>, <<74880,75075>>,
       <<77712,77808>>, <<77824,78894>>, <<82944,83526>>, <<92160,92728>>, <<92736,92766>>, <<92784,92862>>,
       <<92880,92909>>, <<92928,92975>>, <<92992,92995>>, <<93027,93047>>, <<93053,93071>>, <<93760,93823>>,
       <<93952,94026>>, <<94032,94032>>, <<94099,94111>>, <<94176,94177>>, <<94179,94179>>, <<94208,100343>>,
       <<100352,101589>>, <<101632,101640>>, <<110576,110579>>, <<110581,110587>>, <<110589,110590>>, <<110592,110882>>,
       <<110928,110930>>, <<110948,110951>>, <<110960,111355>>, <<113664,113770>>, <<113776,113788>>, <<113792,113800>>,
       <<113808,113817>>, <<119808,119892>>, <<119894,119964>>, <<119966,119967>>, <<119970,119970>>, <<119973,119974>>,
       <<119977,119980>>, <<119982,119993>>, <<119995,119995>>, <<119997,120003>>, <<120005,120069>>, <<120071,120074>>,
       <<120077,120084>>, <<120086,120092>>, <<120094,120121>>, <<120123,120126>>, <<120128,120132>>, <<120134,120134>>,
       <<120138,120144>>, <<120146,120485>>, <<120488,120512>>, <<120514,120538>>, <<120540,120570>>, <<120572,120596>>,
       <<120598,120628>>, <<120630,120654>>, <<120656,120686>>, <<120688,120712>>, <<120714,120744>>, <<120746,120770>>,
       <<120772,120779>>, <<122624,122654>>, <<123136,123180>>, <<123191,123197>>, <<123214,123214>>, <<123536,123565>>,
       <<123584,123627>>, <<124896,124902>>, <<124904,124907>>, <<124909,124910>>, <<124912,124926>>, <<124928,125124>>,
       <<125184,125251>>, <<125259,125259>>, <<126464,126467>>, <<126469,126495>>, <<126497,126498>>, <<126500,126500>>,
       <<126503,126503>>, <<126505,126514>>, <<126516,126519>>, <<126521,126521>>, <<126523,126523>>, <<126530,126530>>,
       <<126535,126535>>, <<126537,126537>>, <<126539,126539>>, <<126541,126543>>, <<126545,126546>>, <<126548,126548>>,
       <<126551,126551>>, <<126553,126553>>, <<126555,126555>>, <<126557,126557>>, <<126559,126559>>, <<126561,126562>>,
       <<126564,126564>>, <<126567,126570>>, <<126572,126578>>, <<126580,126583>>, <<126585,126588>>, <<126590,126590>>,
       <<126592,126601>>, <<126603,126619>>, <<126625,126627>>, <<126629,126633>>, <<126635,126651>>, <<131072,173791>>,
       <<173824,177976>>, <<177984,178205>>, <<178208,183969>>, <<183984,191456>>, <<194560,195101>>, <<196608,201546>>
    >>

RECURSIVE InRanges(_, _, _)
InRanges(c, lo, hi) ==
    IF lo > hi THEN FALSE
    ELSE LET mid == (lo + hi) \div 2 IN
         IF c < alpha_ranges[mid][1] THEN InRanges(c, lo, mid - 1)
         ELSE IF c > alpha_ranges[mid][2] THEN InRanges(c, mid + 1, hi)
         ELSE TRUE

is_letter(c) ==
    IF c < 128 THEN c \in 65..90 \/ c \in 97..122
    ELSE InRanges(c, 1, Len(alpha_ranges))

\* str.isalpha: non-empty and every code point a letter
isalpha(word) == Len(word) > 0 /\ \A i \in 1..Len(word) : is_letter(word[i])

----------------------------------------------------------------------------
(* normalize_ligatures: 64256..64262 are the ligatures U+FB00..U+FB06 *)

\* A table whose "ffi" expansion is written with the "fi" glyph.
ligature_map_nested ==
    << <<64256, S(<<"f","f">>) >>,
       <<64257, S(<<"f","i">>) >>,
       <<64258, S(<<"f","l">>) >>,
       <<64259, S(<<"f">>) \o <<64257>> >>,
       <<64260, S(<<"f","f","l">>) >>,
       <<64261, S(<<"f","t">>) >>,
       <<64262, S(<<"s","t">>) >> >>

ligature_map ==
    << <<64256, S(<<"f","f">>) >>,
       <<64257, S(<<"f","i">>) >>,
       <<64258, S(<<"f","l">>) >>,
       <<64259, S(<<"f","f","i">>) >>,
       <<64260, S(<<"f","f","l">>) >>,
       <<64261, S(<<"f","t">>) >>,
       <<64262, S(<<"s","t">>) >> >>

Ligatures == { ligature_map[k][1] : k \in 1..Len(ligature_map) }

\* str.replace(ligature, replacement) for a one-code-point ligature
RECURSIVE Replace(_, _, _)
Replace(text, ligature, replacement) ==
    IF text = <<>> THEN <<>>
    ELSE (IF Head(text) = ligature THEN replacement ELSE <<Head(text)>>)
         \o Replace(Tail(text), ligature, replacement)

RECURSIVE ReplaceFrom(_, _)
ReplaceFrom(text, k) ==
    IF k > Len(ligature_map) THEN text
    ELSE ReplaceFrom(Replace(text, ligature_map[k][1], ligature_map[k][2]), k + 1)

normalize_ligatures(text) == ReplaceFrom(text, 1)

----------------------------------------------------------------------------
(* normalize_word *)

suffixes == << S(<<"e","d">>), S(<<"d">>), S(<<"i","n","g">>), S(<<"e","s">>), S(<<"s">>) >>

RECURSIVE NormalizeFrom(_, _, _)
NormalizeFrom(word, ox, k) ==
    IF k > Len(suffixes) THEN word
    ELSE LET suffix == suffixes[k] IN
         IF EndsWith(word, suffix) /\ Len(word) > Len(suffix) + 2
         THEN LET base == DropSuffix(word, Len(suffix)) IN
              IF base \in ox THEN base ELSE NormalizeFrom(word, ox, k + 1)
         ELSE NormalizeFrom(word, ox, k + 1)

\* Stops at the first applicable suffix whether or not its prefix is listed.
RECURSIVE NormalizeFirstOnly(_, _, _)
NormalizeFirstOnly(word, ox, k) ==
    IF k > Len(suffixes) THEN word
    ELSE LET suffix == suffixes[k] IN
         IF EndsWith(word, suffix) /\ Len(word) > Len(suffix) + 2
         THEN LET base == DropSuffix(word, Len(suffix)) IN
              IF base \in ox THEN base ELSE word
         ELSE NormalizeFirstOnly(word, ox, k + 1)

normalize_word_first_only(word, ox) == NormalizeFirstOnly(word, ox, 1)

\* Length guard off by one: len(word) >= len(suffix) + 2.
RECURSIVE NormalizeWeakGuard(_, _, _)
NormalizeWeakGuard(word, ox, k) ==
    IF k > Len(suffixes) THEN word
    ELSE LET suffix == suffixes[k] IN
         IF EndsWith(word, suffix) /\ Len(word) >= Len(suffix) + 2
         THEN LET base == DropSuffix(word, Len(suffix)) IN
              IF base \in ox THEN base ELSE NormalizeWeakGuard(word, ox, k + 1)
         ELSE NormalizeWeakGuard(word, ox, k + 1)

normalize_word_weak_guard(word, ox) == NormalizeWeakGuard(word, ox, 1)

normalize_word(word, ox) == NormalizeFrom(word, ox, 1)

----------------------------------------------------------------------------
(* is_ignorable_token *)

\* Filter that forgets the abbreviation list.
is_ignorable_token_no_abbrev(word, abbr) ==
    \/ Len(word) <= 2
    \/ ~ isalpha(word)

is_ignorable_token(word, abbr) ==
    \/ word \in abbr
    \/ Len(word) <= 2
    \/ ~ isalpha(word)

----------------------------------------------------------------------------
(* double_l_pattern: ^([a-z]*[aeiou][a-z]*?)l(ing|ed|er|ers|y)?$           *)
(* 108 is ord("l").                                                        *)

double_l_suffixes ==
    { S(<<"i","n","g">>), S(<<"e","d">>), S(<<"e","r">>), S(<<"e","r","s">>), S(<<"y">>), <<>> }

\* The (base, suffix) groups of a match.  The last character of the word
\* decides the suffix alternative, so a word has at most one match.
double_l_groups(word) ==
    { m \in { <<DropSuffix(word, Len(s) + 1), s>> : s \in
                 { t \in double_l_suffixes :
                     /\ Len(word) >= Len(t) + 1
                     /\ EndsWith(word, <<108>> \o t) } } :
        /\ \A i \in 1..Len(m[1]) : m[1][i] \in Letters
        /\ \E i \in 1..Len(m[1]) : m[1][i] \in Vowels }

double_l_match(word) == double_l_groups(word) # {}

gb_candidate(word) ==
    LET m == CHOOSE g \in double_l_groups(word) : TRUE
    IN  m[1] \o <<108, 108>> \o m[2]

----------------------------------------------------------------------------
(* The SpellChecker built at the top of check_pdf.  Its word table holds   *)
(* the "en" dictionary and words_en_gb.txt (base_lexicon), the Oxford list *)
(* and the medical targets (load_words).  spell.unknown is pyspellchecker's *)
(* SpellChecker.unknown: it first drops the words _check_if_should_check   *)
(* refuses (a single punctuation mark, a word more than 3 longer than the  *)
(* longest word of the table, a word other than "nan" that float() parses) *)
(* and returns those of the rest that are not in the table.  A dropped     *)
(* word is never reported as unknown.  The words passed in are lower-case  *)
(* (line 88), so the library's own lower() leaves them as they are.        *)

Lexicon == base_lexicon \cup oxford_ize_words \cup Range(medical_corrections)

\* WordFrequency.longest_word_length: the length of the longest word of the
\* table, 0 for an empty table
longest_word_length ==
    IF Lexicon = {} THEN 0
    ELSE LET w == CHOOSE x \in Lexicon : \A y \in Lexicon : Len(y) <= Len(x)
         IN  Len(w)

\* string.punctuation: the ASCII characters that are not letters, digits,
\* blanks or controls
punctuation == (33..47) \cup (58..64) \cup (91..96) \cup (123..126)

\* str.lower on the ASCII letters A-Z (65..90)
lower_ascii(word) ==
    [i \in 1..Len(word) |-> IF word[i] \in 65..90 THEN word[i] + 32 ELSE word[i]]

\* A run of ASCII digits (48..57), single underscores (95) allowed between
\* two digits
digit_part(word) ==
    /\ Len(word) > 0
    /\ \A i \in 1..Len(word) :
          \/ word[i] \in 48..57
          \/ /\ word[i] = 95
             /\ i > 1 /\ i < Len(word)
             /\ word[i - 1] \in 48..57
             /\ word[i + 1] \in 48..57

\* float(word) succeeds, for a word of ASCII letters, digits and "_" or of
\* letters only: "inf", "infinity", "nan" in any case, digits, or digits,
\* "e" or "E" (101, 69), digits
float_parsable(word) ==
    \/ lower_ascii(word) \in { S(<<"i","n","f">>), S(<<"i","n","f","i","n","i","t","y">>),
                               S(<<"n","a","n">>) }
    \/ digit_part(word)
    \/ \E k \in 2..(Len(word) - 1) :
          /\ word[k] \in { 101, 69 }
          /\ digit_part(SubSeq(word, 1, k - 1))
          /\ digit_part(SubSeq(word, k + 1, Len(word)))

\* SpellChecker._check_if_should_check
\* (a word whose lower() is "nan" is checked although float() parses it: the
\* test for it comes before the float() test and after the length test)
should_check(word) ==
    /\ ~ (Len(word) = 1 /\ word[1] \in punctuation)
    /\ ~ (Len(word) > longest_word_length + 3)
    /\ \/ lower_ascii(word) = S(<<"n","a","n">>)
       \/ ~ float_parsable(word)

\* spell.unknown([word]) is not empty
unknown(word) == should_check(word) /\ word \notin Lexicon

----------------------------------------------------------------------------
(* Words used as inputs *)

w_dna == S(<<"d","n","a">>)

w_of == S(<<"o","f">>)

w_h2o == S(<<"h","2","o">>)

w_anemia == S(<<"a","n","e","m","i","a">>)

w_anaemia == S(<<"a","n","a","e","m","i","a">>)

w_organise == S(<<"o","r","g","a","n","i","s","e">>)

w_organize == S(<<"o","r","g","a","n","i","z","e">>)

w_organized == S(<<"o","r","g","a","n","i","z","e","d">>)

w_organizes == S(<<"o","r","g","a","n","i","z","e","s">>)

w_organizing == S(<<"o","r","g","a","n","i","z","i","n","g">>)

w_organiz == S(<<"o","r","g","a","n","i","z">>)

w_traveling == S(<<"t","r","a","v","e","l","i","n","g">>)

w_travelling == S(<<"t","r","a","v","e","l","l","i","n","g">>)

w_used == S(<<"u","s","e","d">>)

w_uses == S(<<"u","s","e","s">>)

w_use == S(<<"u","s","e">>)

w_us == S(<<"u","s">>)

w_counseling == S(<<"c","o","u","n","s","e","l","i","n","g">>)

w_counselling == S(<<"c","o","u","n","s","e","l","l","i","n","g">>)

w_english == S(<<"e","n","g","l","i","s","h">>)

\* "caf" and U+00E9 (e with acute)
w_cafe == S(<<"c","a","f">>) \o <<233>>

\* Tokens a document may contain (re.findall(r'\b\w+\b', text.lower()))
Tokens ==
    { w_dna, w_of, w_h2o, w_cafe, w_anemia, w_organise, w_organize, w_organized,
      w_traveling, w_counseling }

\* Contents the three reference files and the dictionary may have
OxfordLists == SUBSET { w_organize, w_organise, w_traveling }

MedicalTables ==
    { <<>>,
      (w_anemia :> w_anaemia),
      (w_anemia :> w_anaemia) @@ (w_organise :> w_organize) }

AbbreviationLists ==
    { {}, { w_dna }, { w_organise }, { w_dna, w_organise, w_traveling } }

\* "english" stands for the bundled dictionary, which is never empty
BaseLexicons == { { w_english } \cup extra : extra \in SUBSET { w_travelling } }

----------------------------------------------------------------------------
(* The loop body of check_pdf *)

ise == S(<<"i","s","e">>)

ize == S(<<"i","z","e">>)

oxford_candidate(word) == DropSuffix(word, 3) \o ize

\* The "-ise" test applied to words ending in "ize".
oxford_ise_match_ize(word, ox) ==
    /\ EndsWith(word, ize)
    /\ Len(word) > 4
    /\ oxford_candidate(word) \in ox

oxford_ise_match(word, ox) ==
    /\ EndsWith(word, ise)
    /\ Len(word) > 4
    /\ oxford_candidate(word) \in ox

double_l_fires(word) == double_l_match(word) /\ ~ unknown(gb_candidate(word))

\* The double-l rule reporting "word -> candidate" (space, U+2192, space).
double_l_report_arrow(word, candidate) == word \o <<32, 8594, 32>> \o candidate

double_l_report(word, candidate) == word

\* The Oxford rule tried before the medical rule.
classify_oxford_first(word) ==
    IF is_ignorable_token(word, abbreviations) THEN "ignored"
    ELSE IF oxford_ise_match(word, oxford_ize_words) THEN "oxford"
    ELSE IF word \in DOMAIN medical_corrections THEN "medical"
    ELSE IF double_l_fires(word) THEN "double_l"
    ELSE "generic"

\* The first branch of the loop body whose test succeeds
classify(word) ==
    IF is_ignorable_token(word, abbreviations) THEN "ignored"
    ELSE IF word \in DOMAIN medical_corrections THEN "medical"
    ELSE IF oxford_ise_match(word, oxford_ize_words) THEN "oxford"
    ELSE IF double_l_fires(word) THEN "double_l"
    ELSE "generic"

\* Appends only pairs not yet listed.
append_issue_dedup(issues, pair) ==
    IF pair \in Range(issues) THEN issues ELSE Append(issues, pair)

append_issue(issues, pair) == Append(issues, pair)

\* Appends without consulting seen_typo_words.
append_typo_always(issues, seen, s) == Append(issues, s)

append_typo(issues, seen, s) == IF s \notin seen THEN Append(issues, s) ELSE issues

Consume(word, name) ==
    /\ branch # "returned"
    /\ Len(words) < MaxWords
    /\ classify(word) = name
    /\ words' = Append(words, word)
    /\ branch' = name

Ignore ==
    \E word \in Tokens :
        /\ Consume(word, "ignored")
        /\ UNCHANGED <<oxford_ize_issues, medical_issues, typo_issues, seen_typo_words>>
        /\ UNCHANGED <<cfgvars, nwvars, ligvars>>

MedicalRule ==
    \E word \in Tokens :
        /\ Consume(word, "medical")
        /\ medical_issues' = append_issue(medical_issues, <<word, medical_corrections[word]>>)
        /\ UNCHANGED <<oxford_ize_issues, typo_issues, seen_typo_words>>
        /\ UNCHANGED <<cfgvars, nwvars, ligvars>>

OxfordRule ==
    \E word \in Tokens :
        /\ Consume(word, "oxford")
        /\ oxford_ize_issues' = append_issue(oxford_ize_issues, <<word, oxford_candidate(word)>>)
        /\ UNCHANGED <<medical_issues, typo_issues, seen_typo_words>>
        /\ UNCHANGED <<cfgvars, nwvars, ligvars>>

DoubleLRule ==
    \E word \in Tokens :
        /\ Consume(word, "double_l")
        /\ LET s == double_l_report(word, gb_candidate(word)) IN
             /\ typo_issues' = append_typo(typo_issues, seen_typo_words, s)
             /\ seen_typo_words' = seen_typo_words \cup {s}
        /\ UNCHANGED <<oxford_ize_issues, medical_issues>>
        /\ UNCHANGED <<cfgvars, nwvars, ligvars>>

GenericRule ==
    \E word \in Tokens :
        /\ Consume(word, "generic")
        /\ LET normalized_word == normalize_word(word, oxford_ize_words) IN
             IF unknown(word) /\ normalized_word \notin oxford_ize_words
             THEN /\ typo_issues' = append_typo(typo_issues, seen_typo_words, word)
                  /\ seen_typo_words' = seen_typo_words \cup {word}
             ELSE UNCHANGED <<typo_issues, seen_typo_words>>
        /\ UNCHANGED <<oxford_ize_issues, medical_issues>>
        /\ UNCHANGED <<cfgvars, nwvars, ligvars>>

Return ==
    /\ branch # "returned"
    /\ branch' = "returned"
    /\ UNCHANGED <<words, oxford_ize_issues, medical_issues, typo_issues, seen_typo_words>>
    /\ UNCHANGED <<cfgvars, nwvars, ligvars>>

Init ==
    /\ oxford_ize_words \in OxfordLists
    /\ medical_corrections \in MedicalTables
    /\ abbreviations \in AbbreviationLists
    /\ base_lexicon \in BaseLexicons
    /\ words = <<>>
    /\ oxford_ize_issues = <<>>
    /\ medical_issues = <<>>
    /\ typo_issues = <<>>
    /\ seen_typo_words = {}
    /\ branch = "start"
    /\ nw_word = <<>> /\ nw_set = {} /\ nw_result = <<>> /\ nw_done = FALSE
    /\ lig_text = <<>> /\ lig_once = <<>> /\ lig_twice = <<>> /\ lig_stage = "none"

Next ==
    \/ Ignore
    \/ MedicalRule
    \/ OxfordRule
    \/ DoubleLRule
    \/ GenericRule
    \/ Return

Spec == Init /\ [][Next]_vars

----------------------------------------------------------------------------
(* normalize_word applied to one (word, list) pair *)

NormWords ==
    { w_organized, w_organizes, w_organizing, w_organize, w_used, w_uses, w_us }

NormLists == SUBSET { w_organize, w_organiz, w_use, w_us }

IdleLoop ==
    /\ oxford_ize_words = {} /\ medical_corrections = <<>>
    /\ abbreviations = {} /\ base_lexicon = {}
    /\ words = <<>> /\ oxford_ize_issues = <<>> /\ medical_issues = <<>>
    /\ typo_issues = <<>> /\ seen_typo_words = {} /\ branch = "start"

NormInit ==
    /\ IdleLoop
    /\ nw_word \in NormWords
    /\ nw_set \in NormLists
    /\ nw_result = <<>>
    /\ nw_done = FALSE
    /\ lig_text = <<>> /\ lig_once = <<>> /\ lig_twice = <<>> /\ lig_stage = "none"

NormalizeWord ==
    /\ ~ nw_done
    /\ nw_result' = normalize_word(nw_word, nw_set)
    /\ nw_done' = TRUE
    /\ UNCHANGED <<nw_word, nw_set, cfgvars, loopvars, ligvars>>

NormNext == NormalizeWord

SpecNormalize == NormInit /\ [][NormNext]_vars

----------------------------------------------------------------------------
(* normalize_ligatures applied once and twice to one text *)

LigAlphabet == Ligatures \cup { ord[c] : c \in { "f", "i", "a" } }

Texts == UNION { [1..n -> LigAlphabet] : n \in 0..MaxLen }

LigInit ==
    /\ IdleLoop
    /\ nw_word = <<>> /\ nw_set = {} /\ nw_result = <<>> /\ nw_done = FALSE
    /\ lig_text \in Texts
    /\ lig_once = <<>>
    /\ lig_twice = <<>>
    /\ lig_stage = "none"

LigOnce ==
    /\ lig_stage = "none"
    /\ lig_once' = normalize_ligatures(lig_text)
    /\ lig_stage' = "once"
    /\ UNCHANGED <<lig_text, lig_twice, cfgvars, loopvars, nwvars>>

LigTwice ==
    /\ lig_stage = "once"
    /\ lig_twice' = normalize_ligatures(lig_once)
    /\ lig_stage' = "twice"
    /\ UNCHANGED <<lig_text, lig_once, cfgvars, loopvars, nwvars>>

LigNext == LigOnce \/ LigTwice

SpecLigature == LigInit /\ [][LigNext]_vars

----------------------------------------------------------------------------
(* Helpers of the properties *)

Last(seq) == seq[Len(seq)]

NoDuplicates(seq) == \A i, j \in 1..Len(seq) : seq[i] = seq[j] => i = j

\* The first occurrences of the elements of seq, in order
RECURSIVE FirstOccurrences(_)
FirstOccurrences(seq) ==
    IF seq = <<>> THEN <<>>
    ELSE LET front == FirstOccurrences(SubSeq(seq, 1, Len(seq) - 1)) IN
         IF Last(seq) \in Range(front) THEN front ELSE Append(front, Last(seq))

Consumed == Len(words') = Len(words) + 1

IssuesUnchanged == UNCHANGED <<oxford_ize_issues, medical_issues, typo_issues>>

\* "ise" is <<105, 115, 101>>, "ize" is <<105, 122, 101>>
IseCase(word) ==
    /\ EndsWith(word, <<105, 115, 101>>)
    /\ Len(word) > 4
    /\ DropSuffix(word, 3) \o <<105, 122, 101>> \in oxford_ize_words

DoubleLKnown(word) == double_l_match(word) /\ gb_candidate(word) \in Lexicon

PassesFilter(word) == word \notin abbreviations /\ Len(word) > 2 /\ isalpha(word)

\* (word, target) for every consumed token the medical branch handles
MedicalPairs ==
    LET sel == SelectSeq(words, LAMBDA w : PassesFilter(w) /\ w \in DOMAIN medical_corrections)
    IN  [i \in 1..Len(sel) |-> <<sel[i], medical_corrections[sel[i]]>>]

\* (word, candidate) for every consumed token the Oxford branch handles
OxfordPairs ==
    LET sel == SelectSeq(words, LAMBDA w : /\ PassesFilter(w)
                                           /\ w \notin DOMAIN medical_corrections
                                           /\ IseCase(w))
    IN  [i \in 1..Len(sel) |-> <<sel[i], DropSuffix(sel[i], 3) \o <<105, 122, 101>>>>]

\* The suffixes of the list the word ends with, the code's guard passing
Strippable(word, k) ==
    /\ EndsWith(word, suffixes[k])
    /\ Len(word) > Len(suffixes[k]) + 2

Prefix(word, k) == DropSuffix(word, Len(suffixes[k]))

\* Positions (j, k), j before k, of two strippable suffixes of which only
\* the later one's prefix is listed
OnlyLaterListed ==
    { p \in (1..Len(suffixes)) \X (1..Len(suffixes)) :
        /\ p[1] < p[2]
        /\ Strippable(nw_word, p[1]) /\ Strippable(nw_word, p[2])
        /\ Prefix(nw_word, p[1]) \notin nw_set
        /\ Prefix(nw_word, p[2]) \in nw_set }

----------------------------------------------------------------------------
(* Properties *)

\* C1 (as stated): when a token ends with two listed suffixes, both passing
\* the length guard, and only the later one's prefix is in OxfordBaseSet,
\* normalize_word returns the unmodified token.
C1_ShortCircuit ==
    (nw_done /\ OnlyLaterListed # {}) => nw_result = nw_word

\* C1 (amended): in that case normalize_word goes on to the later suffix and
\* returns its stripped prefix, which differs from the token.
C1_LaterSuffixTried ==
    (nw_done /\ OnlyLaterListed # {}) =>
        /\ \A p \in OnlyLaterListed : nw_result = Prefix(nw_word, p[2])
        /\ nw_result # nw_word

C1_Witness ==
    /\ nw_done
    /\ nw_word = w_organized
    /\ nw_set = { w_organize }
    /\ OnlyLaterListed = { <<1, 2>> }
    /\ nw_result = w_organize

\* C10 (as stated): a suffix is stripped only when the remaining prefix is
\* longer than len(suffix) + 2.
C10_PrefixExceeds ==
    (nw_done /\ nw_result # nw_word) =>
        Len(nw_result) > (Len(nw_word) - Len(nw_result)) + 2

\* C10 (amended): a suffix is stripped only when the whole token is longer
\* than len(suffix) + 2 (the prefix is longer than 2) and the prefix is
\* listed; a suffix the token is too short for is never stripped, even when
\* its prefix is listed.
C10_TokenExceeds ==
    nw_done =>
        /\ nw_result # nw_word =>
              /\ Len(nw_word) > (Len(nw_word) - Len(nw_result)) + 2
              /\ nw_result \in nw_set
              /\ \E k \in 1..Len(suffixes) : nw_word = nw_result \o suffixes[k]
        /\ \A k \in 1..Len(suffixes) :
              (EndsWith(nw_word, suffixes[k]) /\ Len(nw_word) <= Len(suffixes[k]) + 2)
                  => nw_result # Prefix(nw_word, k)

C10_Witness ==
    /\ nw_done
    /\ nw_word = w_used
    /\ nw_set = { w_us, w_use }
    /\ nw_result = w_use

\* C8: normalize_ligatures applied twice gives what it gives applied once,
\* and its output holds no ligature code point.
C8_LigatureIdempotent ==
    lig_stage = "twice" =>
        /\ lig_twice = lig_once
        /\ \A i \in 1..Len(lig_once) : lig_once[i] \notin Ligatures

C8_Witness ==
    /\ lig_stage = "twice"
    /\ lig_text = <<64259>> \o S(<<"a">>)
    /\ lig_once = S(<<"f", "f", "i", "a">>)
    /\ lig_twice = lig_once

\* C2 (as stated): a token that is a member of OxfordBaseSet is appended to
\* none of the three lists, whatever the other reference sets are.
C2_MemberAlwaysAccepted ==
    [][ (Consumed /\ Last(words') \in oxford_ize_words) => IssuesUnchanged ]_vars

\* C2 (amended): a member of OxfordBaseSet is appended to none of the three
\* lists unless an earlier rule takes it: it is a medical key, or its "-ize"
\* candidate is also in OxfordBaseSet, or its doubled-l candidate is known.
C2_MemberAcceptedUnlessEarlierRule ==
    [][ ( /\ Consumed
          /\ Last(words') \in oxford_ize_words
          /\ Last(words') \notin DOMAIN medical_corrections
          /\ ~ IseCase(Last(words'))
          /\ ~ DoubleLKnown(Last(words')) ) => IssuesUnchanged ]_vars

C2_Witness ==
    /\ branch = "generic"
    /\ Len(words) = 1
    /\ words[1] = w_organize
    /\ w_organize \in oxford_ize_words
    /\ w_organize \notin abbreviations
    /\ oxford_ize_issues = <<>> /\ medical_issues = <<>> /\ typo_issues = <<>>

\* C3 (as stated): a token the double-l rule reports is entered in
\* typo_issues as "token -> candidate".
C3_ArrowReported ==
    (branch = "double_l" /\ DoubleLKnown(Last(words))) =>
        Last(words) \o <<32, 8594, 32>> \o gb_candidate(Last(words))
            \in Range(typo_issues)

\* C3 (amended): a token the double-l rule reports is entered in typo_issues
\* as the bare token; no "token -> candidate" string is entered.
C3_BareTokenReported ==
    (branch = "double_l" /\ DoubleLKnown(Last(words))) =>
        /\ Last(words) \in Range(typo_issues)
        /\ \A i \in 1..Len(typo_issues) : typo_issues[i] \in Range(words)

C3_Witness ==
    /\ branch = "double_l"
    /\ Last(words) = w_traveling
    /\ gb_candidate(w_traveling) = w_travelling
    /\ w_travelling \in Lexicon
    /\ typo_issues = << w_traveling >>

\* C4 (as stated): a token that is a medical key and fits the Oxford "-ise"
\* rule always gets its pair appended to medical_issues and nothing else.
C4_MedicalAlways ==
    [][ ( /\ Consumed
          /\ Last(words') \in DOMAIN medical_corrections
          /\ IseCase(Last(words')) ) =>
        /\ medical_issues' =
              Append(medical_issues, <<Last(words'), medical_corrections[Last(words')]>>)
        /\ UNCHANGED <<oxford_ize_issues, typo_issues>> ]_vars

\* C4 (amended): so it is for every such token that passes the ignorability
\* filter (not an abbreviation, alphabetic).
C4_MedicalBeforeOxford ==
    [][ ( /\ Consumed
          /\ PassesFilter(Last(words'))
          /\ Last(words') \in DOMAIN medical_corrections
          /\ IseCase(Last(words')) ) =>
        /\ medical_issues' =
              Append(medical_issues, <<Last(words'), medical_corrections[Last(words')]>>)
        /\ UNCHANGED <<oxford_ize_issues, typo_issues>> ]_vars

C4_Witness ==
    /\ branch = "medical"
    /\ Len(words) = 1
    /\ words[1] = w_organise
    /\ IseCase(w_organise)
    /\ medical_issues = << <<w_organise, w_organize>> >>
    /\ oxford_ize_issues = <<>> /\ typo_issues = <<>>

\* C5: a token in AbbreviationSet is appended to none of the three lists,
\* whatever other rules it would match.
C5_AbbreviationAccepted ==
    [][ (Consumed /\ Last(words') \in abbreviations) =>
            (branch' = "ignored" /\ IssuesUnchanged) ]_vars

C5_Witness ==
    /\ branch = "ignored"
    /\ Len(words) = 3
    /\ words[1] = w_organise /\ words[2] = w_traveling /\ words[3] = w_dna
    /\ { w_organise, w_traveling, w_dna } \subseteq abbreviations
    /\ w_organise \in DOMAIN medical_corrections
    /\ IseCase(w_organise)
    /\ DoubleLKnown(w_traveling)
    /\ w_dna \notin Lexicon
    /\ oxford_ize_issues = <<>> /\ medical_issues = <<>> /\ typo_issues = <<>>

\* C6 (as stated; the code breaks it for a candidate more than 3 longer than
\* the longest word of the table, which spell.unknown never returns):
\* the double-l branch handles a token only when its doubled-l candidate
\* is in the Lexicon; a token that fits the pattern with an unknown candidate
\* goes to the generic rule, which reports it exactly when it is absent from
\* the Lexicon and its normalized form is not in OxfordBaseSet.
C6_DoubleLOnlyKnown ==
    [][ Consumed =>
        /\ branch' = "double_l" =>
              (double_l_match(Last(words')) /\ gb_candidate(Last(words')) \in Lexicon)
        /\ ( /\ PassesFilter(Last(words'))
             /\ Last(words') \notin DOMAIN medical_corrections
             /\ ~ IseCase(Last(words'))
             /\ double_l_match(Last(words'))
             /\ gb_candidate(Last(words')) \notin Lexicon ) =>
              /\ branch' = "generic"
              /\ UNCHANGED <<oxford_ize_issues, medical_issues>>
              /\ typo_issues' =
                    IF /\ Last(words') \notin Lexicon
                       /\ normalize_word(Last(words'), oxford_ize_words) \notin oxford_ize_words
                       /\ Last(words') \notin Range(typo_issues)
                    THEN Append(typo_issues, Last(words'))
                    ELSE typo_issues ]_vars

\* C7: typo_issues never holds a string twice, and seen_typo_words is the
\* set of the strings in typo_issues.
C7_TypoDedup ==
    /\ NoDuplicates(typo_issues)
    /\ seen_typo_words = Range(typo_issues)

C7_Witness ==
    /\ Len(words) = 3
    /\ words[1] = w_dna /\ words[2] = w_traveling /\ words[3] = w_dna
    /\ typo_issues = << w_dna, w_traveling >>

\* C9 (as stated): oxford_ize_issues and medical_issues hold no pair twice
\* and list the pairs in the order of their first occurrence.
C9_PairsDeduplicated ==
    /\ NoDuplicates(oxford_ize_issues)
    /\ NoDuplicates(medical_issues)
    /\ oxford_ize_issues = FirstOccurrences(OxfordPairs)
    /\ medical_issues = FirstOccurrences(MedicalPairs)

\* C9 (amended): only typo_issues is deduplicated; oxford_ize_issues and
\* medical_issues hold one pair per occurrence of a matching token, in
\* document order.
C9_PairPerOccurrence ==
    /\ oxford_ize_issues = OxfordPairs
    /\ medical_issues = MedicalPairs
    /\ typo_issues = FirstOccurrences(typo_issues)

C9_Witness ==
    /\ Len(words) = 3
    /\ words[1] = w_anemia /\ words[2] = w_organise /\ words[3] = w_anemia
    /\ medical_issues = << <<w_anemia, w_anaemia>>, <<w_anemia, w_anaemia>> >>
    /\ oxford_ize_issues = << <<w_organise, w_organize>> >>

====
